---------------------------- MODULE Spec2Model ----------------------------
(***************************************************************************)
(* Model of noseapp/runner/multiprocessing_runner.py: the process-pool     *)
(* scheduler (TaskProcessor), the worker task wrapper (task), the result   *)
(* collector (ResultQueueHandler), the orchestrator (run) and the run      *)
(* entry point (MultiprocessingTestRunner.run).                            *)
(*                                                                         *)
(* Threads of the parent process: the calling thread (mainPc), the         *)
(* Thread(target=processor.serve) (servePc) and the                        *)
(* Thread(target=queue_handler.handle) (handlePc).  One worker process     *)
(* per suite, proc[i] for suite i.  Every action is one atomic step of     *)
(* one thread or process; steps that touch only data private to their      *)
(* thread are merged with the next step that touches shared data.          *)
(***************************************************************************)
EXTENDS Integers, Sequences, FiniteSets, TLC

\* ------------------------------------------------------------- bounds
MaxSuites == 2
MaxCases == 2
MaxProcesses == 2
\* what the stub of multiprocessing.cpu_count() returns on the modelled host
CpuCount == 1

VARIABLES
    suites,          \* the suites handed to MultiprocessingTestRunner.run
    app_processes,   \* self.config.options.app_processes
    mainPc,          \* position of the calling thread
    mIdx,            \* list-iterator index of the calling thread's destroy()/close()
    mProc,           \* the process the calling thread's close() is joining (0: none)
    interrupted,     \* a KeyboardInterrupt reached run()
    servePc,         \* position of the serve() thread
    sIdx,            \* list-iterator index of the serve() thread
    sNew,            \* the started process serve() has not yet appended (0: none)
    handlePc,        \* position of the handle() thread
    hFrag,           \* failures, errors, skipped, tests_run of handle()
    hPos,            \* how many records of hFrag have been reattached
    result,          \* the shared result (self._result)
    result_queue,    \* the Channel: m.Queue()
    comparison,      \* ResultQueueHandler._comparison
    counter,         \* ResultQueueHandler._counter
    length_suites,   \* ResultQueueHandler._length_suites
    processes,       \* TaskProcessor._processes
    queue,           \* TaskProcessor._queue
    current,         \* TaskProcessor._current
    proc,            \* the worker processes, one per suite
    startLog         \* the suites in the order process.start() was called

vars == <<suites, app_processes, mainPc, mIdx, mProc, interrupted, servePc, sIdx,
          sNew, handlePc, hFrag, hPos, result, result_queue, comparison, counter,
          length_suites, processes, queue, current, proc, startLog>>

\* ------------------------------------------------------------- values
\* A Python value crossing the model: a string or a test object.  Strings are
\* kept by the format that built them and its argument.
Str(fmt, arg) == [t |-> "str", fmt |-> fmt, arg |-> arg]
\* test.test: the case object the suites hold, one per case id
CaseObj(id) == [t |-> "case", fmt |-> "", arg |-> id]
\* the nose Test wrapper around case id, as a worker's result records it
TestObj(id) == [t |-> "Test", fmt |-> "", arg |-> id]

Outcomes == {"pass", "fail", "error", "skip"}

\* All cases of all suites, in suite order: case id = position in this list
RECURSIVE Flatten(_)
Flatten(ss) == IF ss = <<>> THEN <<>> ELSE Head(ss) \o Flatten(Tail(ss))

\* id of the k-th case of suite s
RECURSIVE Offset(_, _)
Offset(ss, s) == IF s <= 1 THEN 0 ELSE Len(ss[s - 1]) + Offset(ss, s - 1)
CaseId(ss, s, k) == Offset(ss, s) + k

\* repr(test.test) of case id.  The repr of a case is its name; no name has
\* itself the form Test(...), so a bare repr never equals a TEST_REPR key.
ReprOfCase(ss, id) == Str("{}", Flatten(ss)[id].name)

\* ResultQueueHandler.TEST_REPR.format(r)
TEST_REPR(r) == Str("Test({})", r.arg)

\* repr() of an object
Repr(ss, v) ==
    IF v.t = "Test" THEN TEST_REPR(ReprOfCase(ss, v.arg))
    ELSE ReprOfCase(ss, v.arg)

\* the formatted traceback / skip reason recorded for case id
Message(id) == Str("msg", id)

\* task.get_value
get_value(ss, value) == IF value.t = "str" THEN value ELSE Repr(ss, value)

EmptyResult == [failures |-> <<>>, errors |-> <<>>, skipped |-> <<>>, testsRun |-> 0]

\* suite(result): runs every case of suite s against res
RECURSIVE RunCases(_, _, _, _)
RunCases(ss, s, k, res) ==
    IF k > Len(ss[s]) THEN res
    ELSE LET id == CaseId(ss, s, k)
             rec == <<TestObj(id), Message(id)>>
             o == ss[s][k].outcome
             r1 == [res EXCEPT !.testsRun = @ + 1]
             r2 == IF o = "fail" THEN [r1 EXCEPT !.failures = Append(@, rec)]
                   ELSE IF o = "error" THEN [r1 EXCEPT !.errors = Append(@, rec)]
                   ELSE IF o = "skip" THEN [r1 EXCEPT !.skipped = Append(@, rec)]
                   ELSE r1
         IN RunCases(ss, s, k + 1, r2)

SuiteCall(ss, s, res) == RunCases(ss, s, 1, res)

\* [[get_value(v) for v in f] for f in records]
Convert(ss, records) ==
    [i \in 1..Len(records) |->
        [j \in 1..Len(records[i]) |-> get_value(ss, records[i][j])]]

\* task(suite, result, result_queue): the list it puts on the queue, for the
\* result object the process was started with
task(ss, s, res) ==
    LET r == SuiteCall(ss, s, res)
    IN [failures |-> Convert(ss, r.failures),
        errors   |-> Convert(ss, r.errors),
        skipped  |-> Convert(ss, r.skipped),
        testsRun |-> r.testsRun]

\* ------------------------------------------------- ResultQueueHandler
\* the keys of the cases of all suites, in _match's iteration order
MatchKeys(ss) ==
    [id \in 1..Len(Flatten(ss)) |-> TEST_REPR(ReprOfCase(ss, id))]

\* (changed) the table is checked per suite only
MatchRaisesPerSuite(ss) ==
    \E s \in 1..Len(ss) : \E i, j \in 1..Len(ss[s]) :
        i < j /\ ss[s][i].name = ss[s][j].name

\* _match raises ValueError: some key is met a second time
MatchRaises(ss) ==
    \E i, j \in 1..Len(Flatten(ss)) : i < j /\ MatchKeys(ss)[i] = MatchKeys(ss)[j]

\* _match's table when it does not raise
MatchTable(ss) ==
    LET keys == MatchKeys(ss)
    IN [k \in {keys[i] : i \in 1..Len(keys)} |->
            CaseObj(CHOOSE i \in 1..Len(keys) : keys[i] = k)]

\* (changed) the fragment is read and left on the queue
ResultQueuePeek(q) == [item |-> Head(q), rest |-> q]

\* self._result_queue.get(): the oldest fragment, and the queue without it
ResultQueueGet(q) == [item |-> Head(q), rest |-> Tail(q)]

\* (changed) the skips are reattached first
RecordsSkipsFirst(frag) == frag.skipped \o frag.failures \o frag.errors

\* the records handle() reattaches from one fragment, in its order
Records(frag) == frag.failures \o frag.errors \o frag.skipped

\* _create_result raises KeyError
CreateRaises(table, data) == data[1] \notin DOMAIN table

\* (changed) the fingerprint is kept where the case belongs
create_result_repr(table, data) == data

\* _create_result's return value
create_result(table, data) == <<table[data[1]]>> \o Tail(data)

\* (changed) the entry is not deleted
TableKept(table, data) == table

\* the table after _create_result's del
TableAfter(table, data) == [k \in (DOMAIN table) \ {data[1]} |-> table[k]]

\* --------------------------------------------------------- TaskProcessor
\* (changed) zero is taken as a pool size
PoolSizeZero(p) == IF p >= 0 THEN p ELSE CpuCount

\* TaskProcessor.__init__: self._processes
PoolSize(p) == IF p > 0 THEN p ELSE CpuCount

\* (changed) a full pool still counts as free
HasFreeSlotOffByOne(cur, p) == Len(cur) <= p

\* _is_release: len(self._current) < self._processes
HasFreeSlot(cur, p) == Len(cur) < p

\* (changed) the newest task is taken first
QueueGetLast(q) == [item |-> q[Len(q)], rest |-> SubSeq(q, 1, Len(q) - 1)]

\* self._queue.get_nowait(): the oldest task, and the queue without it
QueueGet(q) == [item |-> Head(q), rest |-> Tail(q)]

is_alive(p) == p.st \in {"running", "published"}

\* (changed) every tracked process is taken for dead
ReleasableAlways(p) == TRUE

\* _is_release: if not process.is_alive()
Releasable(p) == ~is_alive(p)

\* (changed) join() does not wait
ProcessJoinAtOnce(p) == TRUE

\* close: process.join() returns once the process is not alive
ProcessJoin(p) == ~is_alive(p)

\* (changed) no signal is sent
TerminateNothing(p) == p

\* Process.terminate(): SIGTERM to a live process, nothing to a dead one.
\* The signal is pending (sig) until WorkerKilled delivers it: is_alive() may
\* still answer True right after terminate().
Terminate(p) == IF is_alive(p) THEN [p EXCEPT !.sig = TRUE] ELSE p

\* list.remove
RemoveAt(seq, i) == SubSeq(seq, 1, i - 1) \o SubSeq(seq, i + 1, Len(seq))

NoProc == [st |-> "none", sig |-> FALSE, frag |-> EmptyResult]

\* ------------------------------------------------------------- inputs
CaseShapes == [name : 1..MaxCases, outcome : Outcomes]

\* names are used in the order of their first appearance (any other naming
\* is a renaming of one of these)
Canonical(f) ==
    \A i \in 1..Len(f) :
        f[i].name <= 1 + Cardinality({f[j].name : j \in 1..(i - 1)})

\* the cases of a run, at most MaxCases of them
CaseLists == {f \in UNION {[1..n -> CaseShapes] : n \in 0..MaxCases} : Canonical(f)}

RECURSIVE Sum(_)
Sum(ls) == IF ls = <<>> THEN 0 ELSE Head(ls) + Sum(Tail(ls))

\* the lengths of at most MaxSuites suites that hold n cases
Splits(n) == {ls \in UNION {[1..k -> 0..n] : k \in 0..MaxSuites} : Sum(ls) = n}

\* the suites of lengths ls over the cases f
RECURSIVE Cut(_, _)
Cut(f, ls) ==
    IF ls = <<>> THEN <<>>
    ELSE <<SubSeq(f, 1, Head(ls))>> \o Cut(SubSeq(f, Head(ls) + 1, Len(f)), Tail(ls))

\* the values of the app_processes option: negative, zero, positive
ProcessOptions == (0 - 1)..MaxProcesses

Inputs == UNION {{Cut(f, ls) : ls \in Splits(Len(f))} : f \in CaseLists}

Init ==
    /\ suites \in Inputs
    /\ app_processes \in ProcessOptions
    /\ mainPc = "make"
    /\ mIdx = 0
    /\ mProc = 0
    /\ interrupted = FALSE
    /\ servePc = "idle"
    /\ sIdx = 0
    /\ sNew = 0
    /\ handlePc = "idle"
    /\ hFrag = EmptyResult
    /\ hPos = 0
    /\ result = EmptyResult
    /\ result_queue = <<>>
    /\ comparison = <<>>
    /\ counter = 0
    /\ length_suites = 0
    /\ processes = 0
    /\ queue = <<>>
    /\ current = <<>>
    /\ proc = [i \in 1..Len(suites) |-> NoProc]
    /\ startLog = <<>>

\* --------------------------------------------- MultiprocessingTestRunner.run
\* result = self._makeResult(); processor = TaskProcessor(app_processes);
\* queue_handler = ResultQueueHandler(suites, result, result_queue)
Construct ==
    /\ mainPc = "make"
    /\ processes' = PoolSize(app_processes)
    /\ length_suites' = Len(suites)
    /\ IF MatchRaises(suites)
       THEN /\ mainPc' = "value_error"
            /\ UNCHANGED comparison
       ELSE /\ mainPc' = "add_task"
            /\ comparison' = MatchTable(suites)
    /\ UNCHANGED <<suites, app_processes, mIdx, mProc, interrupted, servePc, sIdx,
                   sNew, handlePc, hFrag, hPos, result, result_queue, counter,
                   queue, current, proc, startLog>>

\* for suite in suites: processor.add_task(task, args=(suite, result, result_queue))
AddTask ==
    /\ mainPc = "add_task"
    /\ IF Len(queue) < Len(suites)
       THEN /\ queue' = Append(queue, Len(queue) + 1)
            /\ UNCHANGED mainPc
       ELSE /\ mainPc' = "start_serve"
            /\ UNCHANGED queue
    /\ UNCHANGED <<suites, app_processes, mIdx, mProc, interrupted, servePc, sIdx,
                   sNew, handlePc, hFrag, hPos, result, result_queue, comparison,
                   counter, length_suites, processes, current, proc, startLog>>

\* ------------------------------------------------------------------- run
\* workers[0].start()
StartServe ==
    /\ mainPc = "start_serve"
    /\ mainPc' = "start_handle"
    /\ servePc' = "loop"
    /\ UNCHANGED <<suites, app_processes, mIdx, mProc, interrupted, sIdx, sNew,
                   handlePc, hFrag, hPos, result, result_queue, comparison, counter,
                   length_suites, processes, queue, current, proc, startLog>>

\* workers[1].start()
StartHandle ==
    /\ mainPc = "start_handle"
    /\ mainPc' = "join_serve"
    /\ handlePc' = "get"
    /\ UNCHANGED <<suites, app_processes, mIdx, mProc, interrupted, servePc, sIdx,
                   sNew, hFrag, hPos, result, result_queue, comparison, counter,
                   length_suites, processes, queue, current, proc, startLog>>

\* workers[0].join(): returns when the thread has ended, by return or by an
\* exception (which the thread does not hand to the joiner)
JoinServe ==
    /\ mainPc = "join_serve"
    /\ servePc \in {"done", "raised"}
    /\ mainPc' = "join_handle"
    /\ UNCHANGED <<suites, app_processes, mIdx, mProc, interrupted, servePc, sIdx,
                   sNew, handlePc, hFrag, hPos, result, result_queue, comparison,
                   counter, length_suites, processes, queue, current, proc, startLog>>

\* workers[1].join(), then the finally clause is entered
JoinHandle ==
    /\ mainPc = "join_handle"
    /\ handlePc \in {"done", "raised"}
    /\ mainPc' = "close"
    /\ mIdx' = 1
    /\ UNCHANGED <<suites, app_processes, mProc, interrupted, servePc, sIdx, sNew,
                   handlePc, hFrag, hPos, result, result_queue, comparison, counter,
                   length_suites, processes, queue, current, proc, startLog>>

\* KeyboardInterrupt inside the try block: control goes to the except clause
Interrupt ==
    /\ mainPc \in {"start_serve", "start_handle", "join_serve", "join_handle"}
    /\ interrupted' = TRUE
    /\ mainPc' = "destroy"
    /\ mIdx' = 1
    /\ UNCHANGED <<suites, app_processes, mProc, servePc, sIdx, sNew, handlePc,
                   hFrag, hPos, result, result_queue, comparison, counter,
                   length_suites, processes, queue, current, proc, startLog>>

\* except KeyboardInterrupt: processor.destroy(), one iteration of its loop
MainDestroy ==
    /\ mainPc = "destroy"
    /\ IF mIdx <= Len(current)
       THEN /\ proc' = [proc EXCEPT ![current[mIdx]] = Terminate(@)]
            /\ mIdx' = mIdx + 1
            /\ UNCHANGED mainPc
       ELSE /\ mainPc' = "close"
            /\ mIdx' = 1
            /\ UNCHANGED proc
    /\ UNCHANGED <<suites, app_processes, mProc, interrupted, servePc, sIdx, sNew,
                   handlePc, hFrag, hPos, result, result_queue, comparison, counter,
                   length_suites, processes, queue, current, startLog>>

\* finally: processor.close(): the loop takes its next process, or ends
MainClose ==
    /\ mainPc = "close"
    /\ mProc = 0
    /\ IF mIdx <= Len(current)
       THEN /\ mProc' = current[mIdx]
            /\ mIdx' = mIdx + 1
            /\ UNCHANGED mainPc
       ELSE /\ mainPc' = "finalize"
            /\ UNCHANGED <<mProc, mIdx>>
    /\ UNCHANGED <<suites, app_processes, interrupted, servePc, sIdx, sNew, handlePc,
                   hFrag, hPos, result, result_queue, comparison, counter,
                   length_suites, processes, queue, current, proc, startLog>>

\* process.join() in close(): returns once the process has exited
MainJoinProcess ==
    /\ mainPc = "close"
    /\ mProc # 0
    /\ ProcessJoin(proc[mProc])
    /\ mProc' = 0
    /\ UNCHANGED <<suites, app_processes, mainPc, mIdx, interrupted, servePc, sIdx,
                   sNew, handlePc, hFrag, hPos, result, result_queue, comparison,
                   counter, length_suites, processes, queue, current, proc, startLog>>

\* self.config.plugins.finalize(result); return result
Finalize ==
    /\ mainPc = "finalize"
    /\ mainPc' = "returned"
    /\ UNCHANGED <<suites, app_processes, mIdx, mProc, interrupted, servePc, sIdx,
                   sNew, handlePc, hFrag, hPos, result, result_queue, comparison,
                   counter, length_suites, processes, queue, current, proc, startLog>>

\* ------------------------------------------------------ TaskProcessor.serve
\* while not self._queue.empty(): ... _is_release: len(self._current) < self._processes
ServeLoop ==
    /\ servePc = "loop"
    /\ IF queue = <<>> THEN servePc' = "done" /\ UNCHANGED sIdx
       ELSE IF HasFreeSlot(current, processes) THEN servePc' = "start" /\ UNCHANGED sIdx
       ELSE servePc' = "scan" /\ sIdx' = 1
    /\ UNCHANGED <<suites, app_processes, mainPc, mIdx, mProc, interrupted, sNew,
                   handlePc, hFrag, hPos, result, result_queue, comparison, counter,
                   length_suites, processes, queue, current, proc, startLog>>

\* _is_release: one iteration of "for process in self._current", the process
\* not alive: terminate it, remove it, return True
ServeRelease ==
    /\ servePc = "scan"
    /\ sIdx <= Len(current)
    /\ Releasable(proc[current[sIdx]])
    /\ proc' = [proc EXCEPT ![current[sIdx]] = Terminate(@)]
    /\ current' = RemoveAt(current, sIdx)
    /\ servePc' = "start"
    /\ UNCHANGED <<suites, app_processes, mainPc, mIdx, mProc, interrupted, sIdx,
                   sNew, handlePc, hFrag, hPos, result, result_queue, comparison,
                   counter, length_suites, processes, queue, startLog>>

\* _is_release: one iteration, the process alive: go on to the next one
ServeScan ==
    /\ servePc = "scan"
    /\ sIdx <= Len(current)
    /\ ~Releasable(proc[current[sIdx]])
    /\ sIdx' = sIdx + 1
    /\ UNCHANGED <<suites, app_processes, mainPc, mIdx, mProc, interrupted, servePc,
                   sNew, handlePc, hFrag, hPos, result, result_queue, comparison,
                   counter, length_suites, processes, queue, current, proc, startLog>>

\* _is_release returned False and waiting_for sleeps and calls it again
ServeRetry ==
    /\ servePc = "scan"
    /\ sIdx > Len(current)
    /\ servePc' = "loop"
    /\ UNCHANGED <<suites, app_processes, mainPc, mIdx, mProc, interrupted, sIdx,
                   sNew, handlePc, hFrag, hPos, result, result_queue, comparison,
                   counter, length_suites, processes, queue, current, proc, startLog>>

\* _is_release returned False and process_timeout has passed: waiting_for
\* raises TimeoutException, serve() enters its except clause
ServeTimeout ==
    /\ servePc = "scan"
    /\ sIdx > Len(current)
    /\ servePc' = "destroy"
    /\ sIdx' = 1
    /\ UNCHANGED <<suites, app_processes, mainPc, mIdx, mProc, interrupted, sNew,
                   handlePc, hFrag, hPos, result, result_queue, comparison, counter,
                   length_suites, processes, queue, current, proc, startLog>>

\* except TimeoutException: self.destroy(), one iteration; then raise
ServeDestroy ==
    /\ servePc = "destroy"
    /\ IF sIdx <= Len(current)
       THEN /\ proc' = [proc EXCEPT ![current[sIdx]] = Terminate(@)]
            /\ sIdx' = sIdx + 1
            /\ UNCHANGED servePc
       ELSE /\ servePc' = "raised"
            /\ UNCHANGED <<proc, sIdx>>
    /\ UNCHANGED <<suites, app_processes, mainPc, mIdx, mProc, interrupted, sNew,
                   handlePc, hFrag, hPos, result, result_queue, comparison, counter,
                   length_suites, processes, queue, current, startLog>>

\* target, args, kwargs = self._queue.get_nowait(); process = Process(...);
\* process.start(): the child is a copy of the parent as it is now, the
\* shared result included
ServeStart ==
    /\ servePc = "start"
    /\ LET s == QueueGet(queue).item
       IN /\ queue' = QueueGet(queue).rest
          /\ proc' = [proc EXCEPT ![s] = [st |-> "running", sig |-> FALSE,
                                          frag |-> task(suites, s, result)]]
          /\ sNew' = s
          /\ startLog' = Append(startLog, s)
    /\ servePc' = "append"
    /\ UNCHANGED <<suites, app_processes, mainPc, mIdx, mProc, interrupted, sIdx,
                   handlePc, hFrag, hPos, result, result_queue, comparison, counter,
                   length_suites, processes, current>>

\* self._current.append(process)
ServeAppend ==
    /\ servePc = "append"
    /\ current' = Append(current, sNew)
    /\ sNew' = 0
    /\ servePc' = "loop"
    /\ UNCHANGED <<suites, app_processes, mainPc, mIdx, mProc, interrupted, sIdx,
                   handlePc, hFrag, hPos, result, result_queue, comparison, counter,
                   length_suites, processes, queue, proc, startLog>>

\* ------------------------------------------------------- worker processes
\* task: result_queue.put_nowait([failures, errors, skipped, result.testsRun])
WorkerPut(w) ==
    /\ proc[w].st = "running"
    /\ result_queue' = Append(result_queue, proc[w].frag)
    /\ proc' = [proc EXCEPT ![w].st = "published"]
    /\ UNCHANGED <<suites, app_processes, mainPc, mIdx, mProc, interrupted, servePc,
                   sIdx, sNew, handlePc, hFrag, hPos, result, comparison, counter,
                   length_suites, processes, queue, current, startLog>>

\* task has returned: the process exits
WorkerExit(w) ==
    /\ proc[w].st = "published"
    /\ proc' = [proc EXCEPT ![w].st = "dead"]
    /\ UNCHANGED <<suites, app_processes, mainPc, mIdx, mProc, interrupted, servePc,
                   sIdx, sNew, handlePc, hFrag, hPos, result, result_queue,
                   comparison, counter, length_suites, processes, queue, current,
                   startLog>>

\* the SIGTERM of Process.terminate() ends the process
WorkerKilled(w) ==
    /\ is_alive(proc[w])
    /\ proc[w].sig
    /\ proc' = [proc EXCEPT ![w].st = "dead"]
    /\ UNCHANGED <<suites, app_processes, mainPc, mIdx, mProc, interrupted, servePc,
                   sIdx, sNew, handlePc, hFrag, hPos, result, result_queue,
                   comparison, counter, length_suites, processes, queue, current,
                   startLog>>

\* ------------------------------------------------ ResultQueueHandler.handle
\* while self._counter < self._length_suites: ... = self._result_queue.get()
HandleGet ==
    /\ handlePc = "get"
    /\ IF counter < length_suites
       THEN /\ result_queue # <<>>
            /\ hFrag' = ResultQueueGet(result_queue).item
            /\ result_queue' = ResultQueueGet(result_queue).rest
            /\ hPos' = 0
            /\ handlePc' = "add"
       ELSE /\ handlePc' = "done"
            /\ UNCHANGED <<hFrag, result_queue, hPos>>
    /\ UNCHANGED <<suites, app_processes, mainPc, mIdx, mProc, interrupted, servePc,
                   sIdx, sNew, result, comparison, counter, length_suites,
                   processes, queue, current, proc, startLog>>

\* _add_failures, _add_errors, _add_skipped: the next record,
\* self._result.failures.append(self._create_result(record))
HandleAdd ==
    /\ handlePc = "add"
    /\ hPos < Len(Records(hFrag))
    /\ LET data == Records(hFrag)[hPos + 1]
       IN IF CreateRaises(comparison, data)
          THEN /\ handlePc' = "raised"
               /\ UNCHANGED <<result, comparison, hPos>>
          ELSE /\ result' = [result EXCEPT
                                !.failures = Append(@, create_result(comparison, data))]
               /\ comparison' = TableAfter(comparison, data)
               /\ hPos' = hPos + 1
               /\ UNCHANGED handlePc
    /\ UNCHANGED <<suites, app_processes, mainPc, mIdx, mProc, interrupted, servePc,
                   sIdx, sNew, hFrag, result_queue, counter, length_suites,
                   processes, queue, current, proc, startLog>>

\* with self._counter_lock: self._result.testsRun += tests_run; self._counter += 1
HandleCount ==
    /\ handlePc = "add"
    /\ hPos = Len(Records(hFrag))
    /\ result' = [result EXCEPT !.testsRun = @ + hFrag.testsRun]
    /\ counter' = counter + 1
    /\ handlePc' = "get"
    /\ UNCHANGED <<suites, app_processes, mainPc, mIdx, mProc, interrupted, servePc,
                   sIdx, sNew, hFrag, hPos, result_queue, comparison, length_suites,
                   processes, queue, current, proc, startLog>>

\* every step of the program itself
ProgramStep ==
    \/ Construct
    \/ AddTask
    \/ StartServe
    \/ StartHandle
    \/ JoinServe
    \/ JoinHandle
    \/ MainDestroy
    \/ MainClose
    \/ MainJoinProcess
    \/ Finalize
    \/ ServeLoop
    \/ ServeRelease
    \/ ServeScan
    \/ ServeRetry
    \/ ServeTimeout
    \/ ServeDestroy
    \/ ServeStart
    \/ ServeAppend
    \/ \E w \in DOMAIN proc : WorkerPut(w)
    \/ \E w \in DOMAIN proc : WorkerExit(w)
    \/ \E w \in DOMAIN proc : WorkerKilled(w)
    \/ HandleGet
    \/ HandleAdd
    \/ HandleCount

Next == ProgramStep \/ Interrupt

Spec == Init /\ [][Next]_vars

\* ------------------------------------------------------------ properties
Workers == DOMAIN proc
Live == {w \in Workers : is_alive(proc[w])}
Tracked == {current[i] : i \in 1..Len(current)}
Cases == Flatten(suites)
CaseIds == 1..Len(Cases)
\* the fingerprint of case id
Fingerprint(id) == TEST_REPR(ReprOfCase(suites, id))
\* serve() and handle() both returned and run() returned without interruption
Completed ==
    mainPc = "returned" /\ ~interrupted /\ servePc = "done" /\ handlePc = "done"

\* C1: once the scheduler exists, neither the number of live worker processes
\* nor the length of _current ever exceeds the pool size _processes.
C1_PoolBound ==
    mainPc # "make" =>
        /\ Cardinality(Live) <= processes
        /\ Len(current) <= processes

C1_Witness ==
    /\ servePc = "scan"
    /\ queue # <<>>
    /\ Len(current) = processes
    /\ Cardinality(Live) = processes

\* C2: when a run of N suites with unique fingerprints and pool size P <= N
\* completes, result.testsRun is the number of cases of all suites.
C2_RunCount ==
    (Completed /\ processes <= Len(suites)) => result.testsRun = Len(Cases)

\* C3: the fragment of every started worker is what its own suite produces
\* against a fresh accumulator: nothing of the shared result as it was when
\* the worker was started is in it.
C3_FragmentIsLocal ==
    \A w \in Workers :
        proc[w].st # "none" => proc[w].frag = task(suites, w, EmptyResult)

\* C4 as stated: when handle() has completed, _comparison is empty.
C4_TableEmpty ==
    (handlePc = "done" /\ processes <= Len(suites)) => DOMAIN comparison = {}

\* C4 as amended: when handle() has completed, _comparison holds exactly the
\* entries of the cases that passed (it is empty exactly when no case passed).
C4_TableHoldsPassed ==
    (handlePc = "done" /\ processes <= Len(suites)) =>
        DOMAIN comparison =
            {Fingerprint(id) : id \in {i \in CaseIds : Cases[i].outcome = "pass"}}

C4_Witness ==
    /\ handlePc = "done"
    /\ processes <= Len(suites)
    /\ Len(suites) = 2
    /\ \E i, j \in CaseIds : Cases[i].outcome = "pass" /\ Cases[j].outcome # "pass"
    /\ Cardinality(DOMAIN comparison) = 1

\* two distinct cases of the scheduled suites have the same fingerprint
DuplicateFingerprint ==
    \E i, j \in CaseIds : i # j /\ Fingerprint(i) = Fingerprint(j)

\* C5: with a duplicate fingerprint the construction of the collector raises,
\* no task is ever enqueued, no thread started and no process spawned.
C5_DuplicateFails ==
    (DuplicateFingerprint /\ mainPc # "make") =>
        /\ mainPc = "value_error"
        /\ queue = <<>>
        /\ servePc = "idle"
        /\ handlePc = "idle"
        /\ startLog = <<>>
        /\ \A w \in Workers : proc[w].st = "none"

C5_Witness ==
    /\ mainPc = "value_error"
    /\ Len(suites) = 2
    /\ Len(suites[1]) = 1
    /\ Len(suites[2]) = 1
    /\ suites[1][1].name = suites[2][1].name

C7_TimeoutPropagates ==
    (servePc = "raised" /\ ~interrupted) =>
        \/ mainPc = "timeout_error"
        \/ (mainPc # "returned" /\ ENABLED ProgramStep)

\* C8: when run() has returned after a KeyboardInterrupt that reached it while
\* both threads had been started, no worker process that was ever started is
\* alive.
C8_NoOrphanAfterInterrupt ==
    (interrupted /\ handlePc # "idle" /\ mainPc \in {"finalize", "returned"}) =>
        Live = {}

\* C9: every record of the shared result is (C, message): the message a
\* worker recorded for a case that did not pass, with the very case object
\* the suites hold for it.
C9_RoundTrip ==
    \A i \in 1..Len(result.failures) :
        \E id \in CaseIds :
            /\ Cases[id].outcome # "pass"
            /\ result.failures[i] = <<CaseObj(id), Message(id)>>
            /\ result.failures[i][1] = MatchTable(suites)[Fingerprint(id)]

C9_Witness ==
    /\ Len(result.failures) = 2
    /\ result.failures[1] = <<CaseObj(2), Message(2)>>
    /\ result.failures[2] = <<CaseObj(1), Message(1)>>

\* C10: processes are started in the order the tasks were enqueued: the k-th
\* process started is that of the k-th suite.
C10_Fifo ==
    \A k \in 1..Len(startLog) : startLog[k] = k

C10_Witness ==
    /\ Len(startLog) = 2
    /\ proc[1].st = "dead"
    /\ proc[2].st = "running"

\* the records a run of these suites has to report: one per case that did
\* not pass
ExpectedRecords ==
    {<<CaseObj(id), Message(id)>> : id \in {i \in CaseIds : Cases[i].outcome # "pass"}}

\* C11: whatever the order in which the workers are started, finish and have
\* their fragments consumed, a completed run ends with the same run-count
\* and the same set of (Case, message) records: those the suites determine.
C11_OrderIndependent ==
    Completed =>
        /\ result.testsRun = Len(Cases)
        /\ {result.failures[i] : i \in 1..Len(result.failures)} = ExpectedRecords

\* C12: when handle() has met a fingerprint that is not in _comparison, the
\* run does not go on to finalize and return the result as if it were complete.
C12_LookupDefectSurfaced ==
    (handlePc = "raised" /\ ~interrupted) => mainPc \notin {"finalize", "returned"}

\* C13: handle() ends only by returning, and then it has counted exactly as
\* many fragments as there are suites.
C13_HandleConsumesAll ==
    handlePc \in {"done", "raised"} => counter = Len(suites)

\* the fragments handle() has taken from the result queue
Taken == counter + (IF handlePc \in {"add", "raised"} THEN 1 ELSE 0)

\* C14: no more fragments are on the queue or taken than processes were
\* started, and when the run has completed every suite was started exactly
\* once, in order, its worker has exited, the result queue is empty and the
\* counter is the number of suites.
C14_OneFragmentEach ==
    /\ Len(result_queue) + Taken <= Len(startLog)
    /\ Completed =>
        /\ startLog = [k \in 1..Len(suites) |-> k]
        /\ \A w \in Workers : proc[w].st = "dead"
        /\ result_queue = <<>>
        /\ counter = Len(suites)

C14_Witness ==
    /\ Completed
    /\ Len(suites) = 2
    /\ processes = 1
    /\ Len(Cases) = 2


\* C15: once the scheduler is constructed its capacity is the app_processes
\* option when that is positive, the host's cpu_count() when it is zero or
\* negative, and so at least 1.
C15_Capacity ==
    mainPc # "make" =>
        /\ app_processes >= 1 => processes = app_processes
        /\ app_processes <= 0 => processes = CpuCount
        /\ processes >= 1

C15_Witness ==
    /\ app_processes < 0
    /\ processes = CpuCount
    /\ servePc = "start"


\* the records of the fragment handle() holds, failures, then errors, then
\* skips, written out
FragmentInOrder == hFrag.failures \o hFrag.errors \o hFrag.skipped

\* C16: every record handle() reattaches, from a fragment's failures, errors
\* or skips, is appended at the end of the shared result's failures: within a
\* fragment in the order failures, errors, skips, each with the case the
\* construction-time table holds for its fingerprint; earlier records are never
\* moved, and the shared result's errors and skipped stay as they were.
C16_AllToFailures ==
    /\ [](/\ result.errors = <<>>
          /\ result.skipped = <<>>
          /\ handlePc \in {"add", "raised"} =>
                /\ hPos <= Len(result.failures)
                /\ \A k \in 1..hPos :
                      result.failures[Len(result.failures) - hPos + k]
                          = <<MatchTable(suites)[FragmentInOrder[k][1]],
                              FragmentInOrder[k][2]>>)
    /\ [][/\ Len(result'.failures) \in {Len(result.failures), Len(result.failures) + 1}
          /\ SubSeq(result'.failures, 1, Len(result.failures)) = result.failures
          /\ Len(result'.failures) > Len(result.failures) => handlePc = "add"]_vars

C16_Witness ==
    /\ handlePc = "add"
    /\ hPos = 2
    /\ Len(hFrag.failures) = 1
    /\ Len(hFrag.skipped) = 1
    /\ result.failures = <<<<CaseObj(2), Message(2)>>, <<CaseObj(1), Message(1)>>>>


\* run() is at or past the end of its finally clause, on the normal path
NormalPath == ~interrupted /\ servePc # "raised"

\* C17: without interrupt and without timeout, run() reaches finalize only
\* after the serve() and handle() threads have ended and close() has joined
\* every process of _current, so every process ever started is dead; finalize
\* is called once, from there, with the result that is then returned.
C17_ReturnAfterAll ==
    /\ []((mainPc \in {"finalize", "returned"} /\ NormalPath) =>
            /\ servePc = "done"
            /\ handlePc \in {"done", "raised"}
            /\ mProc = 0
            /\ queue = <<>>
            /\ \A i \in 1..Len(startLog) : proc[startLog[i]].st = "dead")
    /\ [][/\ (mainPc' = "returned" /\ mainPc # "returned") =>
                (mainPc = "finalize" /\ result' = result)
          /\ mainPc = "returned" => mainPc' = "returned"
          /\ mainPc = "finalize" => mainPc' \in {"finalize", "returned"}]_vars

C17_Witness ==
    /\ mainPc = "returned"
    /\ NormalPath
    /\ handlePc = "done"
    /\ Len(startLog) = 2
    /\ Len(current) = 2
    /\ result.testsRun = 2


\* a step of destroy() or close(), in run() or in serve()'s except clause
DestroyOrCloseStep ==
    \/ mainPc \in {"destroy", "close"} /\ <<mainPc, mIdx, mProc>>' # <<mainPc, mIdx, mProc>>
    \/ servePc = "destroy" /\ <<servePc, sIdx>>' # <<servePc, sIdx>>

\* a process leaves _current in this step only as _is_release removes it, and
\* the step, if one of destroy() or close(), changes neither list
RemovalDiscipline ==
    /\ (\E w \in Tracked : w \notin Tracked') =>
          (/\ servePc = "scan" /\ servePc' = "start"
           /\ Len(current) >= processes
           /\ \E i \in 1..Len(current) :
                 /\ current' = RemoveAt(current, i)
                 /\ ~is_alive(proc[current[i]]))
    /\ DestroyOrCloseStep => (current' = current /\ queue' = queue)

\* C18: a process leaves _current only in _is_release, one per call, only when
\* it is not alive and _current is at capacity; so every live process is in
\* _current in every reachable state; destroy() and close() leave _current and
\* the queue of tasks as they were.
C18_LiveAreTracked ==
    /\ [](Live \subseteq Tracked)
    /\ [][RemovalDiscipline]_vars

\* the part of it about the steps alone, which does hold
RemovalDisciplineHolds == [][RemovalDiscipline]_vars

\* destroy() has been invoked, by serve() on a timeout or by run() on an
\* interrupt
DestroyInvoked == servePc \in {"destroy", "raised"} \/ interrupted

\* C19: once destroy() has been invoked, no process is started and no task
\* is taken from the queue for the rest of the run.
C19_NoSpawnAfterDestroy ==
    [][DestroyInvoked => (startLog' = startLog /\ queue' = queue)]_vars

\* the cases a table holds
TableCases(table) == {table[k] : k \in DOMAIN table}
\* the cases the shared result's records name
Reported == {result.failures[i][1] : i \in 1..Len(result.failures)}

\* C20: once the handler is constructed, every record of the shared result
\* names a case of the table _match built, no case is named by two records,
\* and no reported case is still in the table; the table only loses entries,
\* exactly one with each record appended.
C20_TableAndRecords ==
    /\ [](mainPc \notin {"make", "value_error"} =>
            /\ Reported \subseteq TableCases(MatchTable(suites))
            /\ Cardinality(Reported) = Len(result.failures)
            /\ Reported \cap TableCases(comparison) = {}
            /\ DOMAIN comparison \subseteq DOMAIN MatchTable(suites)
            /\ \A k \in DOMAIN comparison : comparison[k] = MatchTable(suites)[k])
    /\ [][mainPc \notin {"make", "value_error"} =>
            /\ DOMAIN comparison' \subseteq DOMAIN comparison
            /\ Cardinality(DOMAIN comparison) - Cardinality(DOMAIN comparison')
                  = Len(result'.failures) - Len(result.failures)]_vars

C20_Witness ==
    /\ handlePc = "add"
    /\ hPos = 1
    /\ Len(result.failures) = 1
    /\ Cardinality(DOMAIN comparison) = 1
    /\ Len(Records(hFrag)) = 2

====
